---- MODULE Spec2Model ----
(***************************************************************************)
(* Model of the sidebar plugin of src/main.ts: the file-open handler with  *)
(* its rule-matching predicate, the settings load/save, and the callbacks  *)
(* of the settings tab.                                                    *)
(*                                                                         *)
(* Strings the code applies string operations to (path rules, file paths,  *)
(* extensions, frontmatter values) are sequences of one-character strings. *)
(* Frontmatter keys are only looked up, so they are plain strings.         *)
(***************************************************************************)
EXTENDS Naturals, Sequences, FiniteSets, TLC

VARIABLES
    settings,   \* this.settings: collapsePaths (a value) and the array collapseFrontmatterRules refers to
    arrays,     \* the rule arrays on the heap: the one DEFAULT_SETTINGS holds, the one loadData built
    objects,    \* the FrontmatterRule objects on the heap, by identity
    displayed,  \* whether display() has rendered the settings tab
    rows,       \* the rendered frontmatter rows: rows[i] is the rule object row i captured, i-1 its index
    pending,    \* saveData calls whose promise has not resolved yet, oldest first
    disk,       \* what loadData() returns: the saved data, if any
    sidebar,    \* app.workspace.leftSplit: "collapsed" or "expanded"
    last,       \* the most recent handler run: its name, inputs and the collaborator calls it made
    edits       \* how many callbacks of the settings tab have run

vars == <<settings, arrays, objects, displayed, rows, pending, disk, sidebar, last, edits>>

(* ------------------------------ bounds --------------------------------- *)

\* Longest path-rule list and frontmatter-rule list of the saved rule sets the decider
\* is run on.
MaxSavedPaths == 1
MaxSavedRules == 1
\* Most callbacks of the settings tab (edits and clicks) in one session.
MaxEdits == 2

(* --------------------------- string helpers ---------------------------- *)

\* The characters String.prototype.trim removes (those the model's strings use).
WhiteSpace == {" ", "\n", "\t"}

RECURSIVE trimStart(_)
trimStart(s) ==
    IF s # <<>> /\ Head(s) \in WhiteSpace THEN trimStart(Tail(s)) ELSE s

RECURSIVE trimEnd(_)
trimEnd(s) ==
    IF s # <<>> /\ s[Len(s)] \in WhiteSpace THEN trimEnd(SubSeq(s, 1, Len(s) - 1)) ELSE s

\* String.prototype.trim
trim(s) == trimEnd(trimStart(s))

\* String.prototype.startsWith(prefix), compared character by character
RECURSIVE startsWith(_, _)
startsWith(s, prefix) ==
    IF prefix = <<>> THEN TRUE
    ELSE IF s = <<>> THEN FALSE
    ELSE Head(s) = Head(prefix) /\ startsWith(Tail(s), Tail(prefix))

\* String.prototype.endsWith(suffix)
endsWith(s, suffix) ==
    /\ Len(suffix) <= Len(s)
    /\ \A i \in 1..Len(suffix) : s[Len(s) - Len(suffix) + i] = suffix[i]

\* String.prototype.substring(start) for 0 <= start
substring(s, start) ==
    IF start >= Len(s) THEN <<>> ELSE SubSeq(s, start + 1, Len(s))

\* String.prototype.split('\n'): the pieces between line breaks; "" splits to [""]
RECURSIVE split(_)
split(value) ==
    IF \A i \in 1..Len(value) : value[i] # "\n" THEN <<value>>
    ELSE LET k == CHOOSE i \in 1..Len(value) :
                      /\ value[i] = "\n"
                      /\ \A j \in 1..(i - 1) : value[j] # "\n"
         IN  <<SubSeq(value, 1, k - 1)>> \o split(SubSeq(value, k + 1, Len(value)))

Digit(d) == CASE d = 0 -> "0" [] d = 1 -> "1" [] d = 2 -> "2" [] d = 3 -> "3"
              [] d = 4 -> "4" [] d = 5 -> "5" [] d = 6 -> "6" [] d = 7 -> "7"
              [] d = 8 -> "8" [] d = 9 -> "9"

RECURSIVE Decimal(_)
Decimal(n) == IF n < 10 THEN <<Digit(n)>> ELSE Decimal(n \div 10) \o <<Digit(n % 10)>>

\* String(frontmatterValue) for the scalars a frontmatter block holds
String(v) ==
    CASE v.t = "string"  -> v.s
      [] v.t = "boolean" -> IF v.b THEN <<"t", "r", "u", "e">> ELSE <<"f", "a", "l", "s", "e">>
      [] v.t = "number"  -> Decimal(v.n)
      [] v.t = "null"    -> <<"n", "u", "l", "l">>

(* ----------------------------- the decider ----------------------------- *)

\* Faulty variant: the leading dot is tested before the trailing slash.
PathRuleMatches_extensionFirst(settingPath, file) ==
    LET trimmedPath == trim(settingPath) IN
    IF trimmedPath = <<>> THEN FALSE
    ELSE IF startsWith(trimmedPath, <<".">>) THEN file.extension = substring(trimmedPath, 1)
    ELSE IF endsWith(trimmedPath, <<"/">>) THEN startsWith(file.path, trimmedPath)
    ELSE FALSE

\* Faulty variant: the extension is compared with the entry, dot included.
PathRuleMatches_keepsDot(settingPath, file) ==
    LET trimmedPath == trim(settingPath) IN
    IF trimmedPath = <<>> THEN FALSE
    ELSE IF endsWith(trimmedPath, <<"/">>) THEN startsWith(file.path, trimmedPath)
    ELSE IF startsWith(trimmedPath, <<".">>) THEN file.extension = trimmedPath
    ELSE FALSE

\* Faulty variant: an entry of neither shape is taken for a folder prefix.
PathRuleMatches_bareFolder(settingPath, file) ==
    LET trimmedPath == trim(settingPath) IN
    IF trimmedPath = <<>> THEN FALSE
    ELSE IF endsWith(trimmedPath, <<"/">>) THEN startsWith(file.path, trimmedPath)
    ELSE IF startsWith(trimmedPath, <<".">>) THEN file.extension = substring(trimmedPath, 1)
    ELSE startsWith(file.path, trimmedPath)

\* The callback of collapsePaths.some: whether one path-rule entry matches the file.
PathRuleMatches(settingPath, file) ==
    LET trimmedPath == trim(settingPath) IN
    IF trimmedPath = <<>> THEN FALSE
    ELSE IF endsWith(trimmedPath, <<"/">>) THEN startsWith(file.path, trimmedPath)
    ELSE IF startsWith(trimmedPath, <<".">>) THEN file.extension = substring(trimmedPath, 1)
    ELSE FALSE

\* pathMatches: collapsePaths.some(...)
pathMatches(collapsePaths, file) ==
    \E i \in 1..Len(collapsePaths) : PathRuleMatches(collapsePaths[i], file)

\* Faulty variant: the rule's value is compared untrimmed.
FrontmatterRuleMatches_untrimmedRule(rule, frontmatter) ==
    /\ rule.key \in DOMAIN frontmatter
    /\ trim(String(frontmatter[rule.key])) = rule.value

\* The callback of collapseFrontmatterRules.some: whether one rule matches the frontmatter.
FrontmatterRuleMatches(rule, frontmatter) ==
    /\ rule.key \in DOMAIN frontmatter
    /\ trim(String(frontmatter[rule.key])) = trim(rule.value)

\* The frontmatter part of shouldCollapseSidebar, given what getFileCache returned.
frontmatterMatches(rules, cache) ==
    IF cache.present
    THEN \E i \in 1..Len(rules) : FrontmatterRuleMatches(rules[i], cache.frontmatter)
    ELSE FALSE

\* Faulty variant: the metadata is looked up before the path rules decide.
shouldCollapseSidebar_lookupFirst(file, cache, collapsePaths, rules) ==
    [result |-> pathMatches(collapsePaths, file) \/ frontmatterMatches(rules, cache),
     calls  |-> <<"getFileCache">>]

\* shouldCollapseSidebar: its result and the collaborator calls it makes, in order.
shouldCollapseSidebar(file, cache, collapsePaths, rules) ==
    IF pathMatches(collapsePaths, file)
    THEN [result |-> TRUE, calls |-> <<>>]
    ELSE [result |-> frontmatterMatches(rules, cache), calls |-> <<"getFileCache">>]

\* Faulty variant: the two branches of the final if are swapped.
SidebarAction_inverted(shouldCollapse) == IF shouldCollapse THEN "expand" ELSE "collapse"

\* The sidebar action handleFileOpen invokes for a decision.
SidebarAction(shouldCollapse) == IF shouldCollapse THEN "collapse" ELSE "expand"

\* Faulty variant: with no rules at all the sidebar is collapsed.
handleFileOpenCalls_collapseWhenEmpty(file, cache, collapsePaths, rules) ==
    IF ~file.exists THEN <<>>
    ELSE IF Len(collapsePaths) = 0 /\ Len(rules) = 0 THEN <<"collapse">>
    ELSE LET d == shouldCollapseSidebar(file, cache, collapsePaths, rules)
         IN  d.calls \o <<SidebarAction(d.result)>>

\* Faulty variant: the absent file is not tested for.
handleFileOpenCalls_noFileCheck(file, cache, collapsePaths, rules) ==
    IF Len(collapsePaths) = 0 /\ Len(rules) = 0 THEN <<"expand">>
    ELSE LET d == shouldCollapseSidebar(file, cache, collapsePaths, rules)
         IN  d.calls \o <<SidebarAction(d.result)>>

\* handleFileOpen: the collaborator calls it makes, in order.
handleFileOpenCalls(file, cache, collapsePaths, rules) ==
    IF ~file.exists THEN <<>>
    ELSE IF Len(collapsePaths) = 0 /\ Len(rules) = 0 THEN <<"expand">>
    ELSE LET d == shouldCollapseSidebar(file, cache, collapsePaths, rules)
         IN  d.calls \o <<SidebarAction(d.result)>>

\* leftSplit after a sequence of calls: collapse() and expand() set it, a lookup leaves it.
RECURSIVE SidebarAfter(_, _)
SidebarAfter(state, calls) ==
    IF calls = <<>> THEN state
    ELSE SidebarAfter(CASE Head(calls) = "collapse" -> "collapsed"
                        [] Head(calls) = "expand"   -> "expanded"
                        [] OTHER                    -> state,
                      Tail(calls))

(* ------------------------------ the heap ------------------------------- *)

Max(a, b) == IF a >= b THEN a ELSE b

\* Identities of FrontmatterRule objects: enough for the DEFAULT_SETTINGS array, the
\* loaded array and the objects the rendered rows still hold, each of at most two saved
\* rules and one more per click.
ObjIds == 1..Max(1 + MaxSavedRules, 5 + 3 * MaxEdits)

\* An object no reference reaches.
Blank == [key |-> "", value |-> <<>>]

Range(seq) == {seq[i] : i \in 1..Len(seq)}

\* The n lowest identities not in use: what `{...}` and JSON parsing allocate.
RECURSIVE NewIds(_, _)
NewIds(n, used) ==
    IF n = 0 THEN <<>>
    ELSE LET id == CHOOSE x \in ObjIds \ used : \A y \in ObjIds \ used : x <= y
         IN  <<id>> \o NewIds(n - 1, used \cup {id})

\* The array this.settings.collapseFrontmatterRules refers to.
RuleArray(s, arrs) == arrs[s.collapseFrontmatterRules]

\* The rules of an array, as values.
RulesOf(arr, objs) == [i \in 1..Len(arr) |-> objs[arr[i]]]

\* The current frontmatter rules, as values.
collapseFrontmatterRules == RulesOf(RuleArray(settings, arrays), objects)

\* Garbage collection: the loaded array once nothing refers to it, and the content of
\* the objects no array holds (a row may still hold one, and nothing reads it again).
LiveArrays(s, arrs) ==
    [arrs EXCEPT !.loaded = IF s.collapseFrontmatterRules = "loaded" THEN @ ELSE <<>>]

LiveObjects(s, arrs, objs, rws) ==
    LET live == Range(arrs.default) \cup Range(LiveArrays(s, arrs).loaded)
    IN  [id \in ObjIds |-> IF id \in live THEN objs[id] ELSE Blank]

(* ------------------------------ settings ------------------------------- *)

\* DEFAULT_SETTINGS as written in the source (lines 22-25).
DefaultRule == [key |-> "hideside", value |-> <<"t", "r", "u", "e">>]
DefaultRuleSet == [collapsePaths |-> <<>>, collapseFrontmatterRules |-> <<DefaultRule>>]

\* loadData() when no data file exists.
NoData == [exists |-> FALSE, fields |-> {},
           collapsePaths |-> <<>>, collapseFrontmatterRules |-> <<>>]

\* A data file holding both fields: what saveData(this.settings) writes.
SavedData(paths, rules) ==
    [exists |-> TRUE, fields |-> {"collapsePaths", "collapseFrontmatterRules"},
     collapsePaths |-> paths, collapseFrontmatterRules |-> rules]

\* JSON of this.settings, taken when saveData is called.
Snapshot(s, arrs, objs) == SavedData(s.collapsePaths, RulesOf(RuleArray(s, arrs), objs))

\* Object.assign({}, DEFAULT_SETTINGS, data): a shallow copy, so a field the data lacks
\* is DEFAULT_SETTINGS' own value, for the rules the very array DEFAULT_SETTINGS holds.
\* The result is the new settings, arrays and objects.
AssignSettings(data, arrs, objs, rws) ==
    LET hasPaths == data.exists /\ "collapsePaths" \in data.fields
        hasRules == data.exists /\ "collapseFrontmatterRules" \in data.fields
        n        == Len(data.collapseFrontmatterRules)
        \* the array loaded before is unreachable from now on, unless a row holds its objects
        ids      == NewIds(n, Range(arrs.default) \cup Range(rws))
    IN  IF hasRules
        THEN [settings |-> [collapsePaths |-> IF hasPaths THEN data.collapsePaths ELSE <<>>,
                            collapseFrontmatterRules |-> "loaded"],
              arrays   |-> [arrs EXCEPT !.loaded = ids],
              objects  |-> [id \in ObjIds |->
                              IF \E i \in 1..n : ids[i] = id
                              THEN data.collapseFrontmatterRules[CHOOSE i \in 1..n : ids[i] = id]
                              ELSE objs[id]]]
        ELSE [settings |-> [collapsePaths |-> IF hasPaths THEN data.collapsePaths ELSE <<>>,
                            collapseFrontmatterRules |-> "default"],
              arrays   |-> arrs,
              objects  |-> objs]

(* ------------------------------- inputs -------------------------------- *)

NoFile == [exists |-> FALSE, path |-> <<>>, extension |-> <<>>]
TFile(path, extension) == [exists |-> TRUE, path |-> path, extension |-> extension]

\* getFileCache(file) with no cache entry or no frontmatter block.
NoCache == [present |-> FALSE, frontmatter |-> <<>>]
FileCache(frontmatter) == [present |-> TRUE, frontmatter |-> frontmatter]

\* Frontmatter scalars: a type tag and the field of that type.
Null == [t |-> "null", s |-> <<>>, b |-> FALSE, n |-> 0]
Str(s) == [Null EXCEPT !.t = "string", !.s = s]
Bool(b) == [Null EXCEPT !.t = "boolean", !.b = b]
Num(n) == [Null EXCEPT !.t = "number", !.n = n]

True == <<"t", "r", "u", "e">>

\* Path-rule entries: blank, white space, folders, extensions, malformed.
Entries ==
    { <<>>, <<" ">>,
      <<"a", "/">>, <<" ", "a", "/", " ">>, <<".", "a", "/">>,
      <<".", "p">>, <<".">>, <<"a">> }

\* Files: a/i.p, n/a/i.p, A/i.P, .a/i
Files ==
    { TFile(<<"a", "/", "i", ".", "p">>, <<"p">>),
      TFile(<<"n", "/", "a", "/", "i", ".", "p">>, <<"p">>),
      TFile(<<"A", "/", "i", ".", "P">>, <<"P">>),
      TFile(<<".", "a", "/", "i">>, <<>>) }

\* What getFileCache returns: nothing, or a frontmatter block of scalars.
Caches ==
    { NoCache,
      FileCache(<<>>),
      FileCache("hideside" :> Str(True)),
      FileCache("hideside" :> Bool(TRUE)),
      FileCache("hideside" :> Str(<<" ", "t", "r", "u", "e", "\n">>)),
      FileCache("hideside" :> Str(<<"T", "r", "u", "e">>)),
      FileCache(("n" :> Num(10)) @@ ("hideside" :> Null)) }

Rules ==
    { DefaultRule,
      [key |-> "hideside", value |-> <<"t", "r", "u", "e", " ">>],
      [key |-> "n", value |-> <<"1", "0">>] }

SeqsUpTo(S, n) == UNION {[1..k -> S] : k \in 0..n}

\* Data files a session may start from.
SavedRuleSets ==
    {SavedData(p, r) : p \in SeqsUpTo(Entries, MaxSavedPaths), r \in SeqsUpTo(Rules, MaxSavedRules)}

(* ------------------------------ actions -------------------------------- *)

\* `last` after a handler the properties do not follow, and after one they do.
Idle == [op |-> "none", file |-> NoFile, cache |-> NoCache, calls |-> <<>>, row |-> 0]
Ran(op) == [Idle EXCEPT !.op = op]

\* The state onload leaves: DEFAULT_SETTINGS as written, then loadSettings on `data`.
InitFrom(data) ==
    LET arrs0 == [default |-> <<1>>, loaded |-> <<>>]
        objs0 == [id \in ObjIds |-> IF id = 1 THEN DefaultRule ELSE Blank]
        a     == AssignSettings(data, arrs0, objs0, <<>>)
    IN  /\ settings = a.settings
        /\ arrays = a.arrays
        /\ objects = a.objects
        /\ displayed = FALSE
        /\ rows = <<>>
        /\ pending = <<>>
        /\ disk = data
        /\ sidebar \in {"expanded", "collapsed"}
        /\ last = Idle
        /\ edits = 0

\* The new heap and settings of a handler, after garbage collection.
Commit(s, arrs, objs, rws) ==
    /\ settings' = s
    /\ arrays' = LiveArrays(s, arrs)
    /\ objects' = LiveObjects(s, arrs, objs, rws)
    /\ rows' = rws

\* handleFileOpen(file), with `cache` what getFileCache(file) would return.
handleFileOpen(file, cache) ==
    LET calls == handleFileOpenCalls(file, cache, settings.collapsePaths, collapseFrontmatterRules)
    IN  /\ sidebar' = SidebarAfter(sidebar, calls)
        /\ last' = [op |-> "file-open", file |-> file, cache |-> cache, calls |-> calls, row |-> 0]
        /\ UNCHANGED <<settings, arrays, objects, displayed, rows, pending, disk, edits>>

\* loadSettings(): this.settings = Object.assign({}, DEFAULT_SETTINGS, await this.loadData())
loadSettings ==
    LET a == AssignSettings(disk, arrays, objects, rows)
    IN  /\ Commit(a.settings, a.arrays, a.objects, rows)
        /\ last' = Ran("loadSettings")
        /\ UNCHANGED <<displayed, pending, disk, sidebar, edits>>

\* saveSettings(): saveData(this.settings) serialises the settings now; `refresh` tells
\* whether the caller goes on to this.display() once the write has resolved.
saveSettings(s, arrs, objs, refresh) ==
    pending' = Append(pending, [data |-> Snapshot(s, arrs, objs), refresh |-> refresh])

\* display(), called by the host when the settings tab is shown: one row per current
\* rule, each capturing its rule object and its index.
display ==
    /\ Commit(settings, arrays, objects, RuleArray(settings, arrays))
    /\ displayed' = TRUE
    /\ last' = Idle
    /\ UNCHANGED <<pending, disk, sidebar, edits>>

\* onChange of the text area: collapsePaths = value.split('\n'); await saveSettings()
pathsOnChange(value) ==
    LET s == [settings EXCEPT !.collapsePaths = split(value)] IN
    /\ displayed
    /\ edits < MaxEdits
    /\ edits' = edits + 1
    /\ Commit(s, arrays, objects, rows)
    /\ saveSettings(s, arrays, objects, FALSE)
    /\ last' = Idle
    /\ UNCHANGED <<displayed, disk, sidebar>>

\* onChange of row i's key field: rule.key = value on the captured rule object
keyOnChange(i, value) ==
    LET objs == [objects EXCEPT ![rows[i]].key = value] IN
    /\ displayed
    /\ edits < MaxEdits
    /\ edits' = edits + 1
    /\ Commit(settings, arrays, objs, rows)
    /\ saveSettings(settings, arrays, objs, FALSE)
    /\ last' = Idle
    /\ UNCHANGED <<displayed, disk, sidebar>>

\* onChange of row i's value field: rule.value = value on the captured rule object
valueOnChange(i, value) ==
    LET objs == [objects EXCEPT ![rows[i]].value = value] IN
    /\ displayed
    /\ edits < MaxEdits
    /\ edits' = edits + 1
    /\ Commit(settings, arrays, objs, rows)
    /\ saveSettings(settings, arrays, objs, FALSE)
    /\ last' = Idle
    /\ UNCHANGED <<displayed, disk, sidebar>>

\* Array.prototype.splice(index, 1), index counted from 0: nothing to remove past the end.
splice(arr, index) ==
    IF index < Len(arr)
    THEN SubSeq(arr, 1, index) \o SubSeq(arr, index + 2, Len(arr))
    ELSE arr

\* onClick of row i's delete button, up to its await: splice(index, 1) on the current
\* array with the index the row captured, then saveSettings().
deleteOnClick(i) ==
    LET ref  == settings.collapseFrontmatterRules
        arrs == [arrays EXCEPT ![ref] = splice(@, i - 1)] IN
    /\ displayed
    /\ edits < MaxEdits
    /\ edits' = edits + 1
    /\ Commit(settings, arrs, objects, rows)
    /\ saveSettings(settings, arrs, objects, TRUE)
    /\ last' = [Ran("delete") EXCEPT !.row = i]
    /\ UNCHANGED <<displayed, disk, sidebar>>

\* onClick of the add button, up to its await: push({key: '', value: ''}), saveSettings().
addOnClick ==
    LET ref  == settings.collapseFrontmatterRules
        id   == NewIds(1, Range(arrays.default) \cup Range(arrays.loaded) \cup Range(rows))[1]
        arrs == [arrays EXCEPT ![ref] = Append(@, id)]
        objs == [objects EXCEPT ![id] = [key |-> "", value |-> <<>>]] IN
    /\ displayed
    /\ edits < MaxEdits
    /\ edits' = edits + 1
    /\ Commit(settings, arrs, objs, rows)
    /\ saveSettings(settings, arrs, objs, TRUE)
    /\ last' = Idle
    /\ UNCHANGED <<displayed, disk, sidebar>>

\* The oldest saveData resolves: the data is on disk, and the click handler that awaited
\* it goes on to this.display().
saveResolved ==
    /\ pending # <<>>
    /\ disk' = Head(pending).data
    /\ pending' = Tail(pending)
    /\ Commit(settings, arrays, objects,
              IF Head(pending).refresh THEN RuleArray(settings, arrays) ELSE rows)
    /\ last' = Idle
    /\ UNCHANGED <<displayed, sidebar, edits>>

(* --------------------------- specifications ---------------------------- *)

\* What the editor's fields are set to.
PathTexts == { <<>>, <<".", "p", "\n", "a", "/">>, <<"a">> }
KeyTexts == { "n" }
ValueTexts == { <<"1", "0">> }

\* The files and metadata of the editor session.
SessionFiles == { TFile(<<"a", "/", "i", ".", "p">>, <<"p">>), TFile(<<".", "a", "/", "i">>, <<>>) }
SessionCaches == { NoCache, FileCache("hideside" :> Bool(TRUE)) }

\* Data files the editor session may start from: none, one of an older version that
\* saved only the paths, one with both fields.
SessionData ==
    { NoData,
      [NoData EXCEPT !.exists = TRUE, !.fields = {"collapsePaths"}, !.collapsePaths = <<<<"a", "/">>>>],
      SavedData(<<>>, <<DefaultRule, [key |-> "n", value |-> <<"1", "0">>]>>) }

Init == \E data \in SessionData : InitFrom(data)

Next ==
    \/ \E file \in SessionFiles, cache \in SessionCaches : handleFileOpen(file, cache)
    \/ handleFileOpen(NoFile, NoCache)
    \/ display
    \/ \E value \in PathTexts : pathsOnChange(value)
    \/ \E i \in 1..Len(rows), value \in KeyTexts : keyOnChange(i, value)
    \/ \E i \in 1..Len(rows), value \in ValueTexts : valueOnChange(i, value)
    \/ \E i \in 1..Len(rows) : deleteOnClick(i)
    \/ addOnClick
    \/ saveResolved

\* A session as the plugin is wired: onload has loaded the settings; then file-open
\* events, the settings tab's callbacks and resolving saves.
Spec == Init /\ [][Next]_vars

NextReload == Next \/ loadSettings

\* A session in which loadSettings runs again at any time.
SpecReload == Init /\ [][NextReload]_vars

InitDecide == \E data \in SavedRuleSets : InitFrom(data)

NextDecide ==
    \/ \E file \in Files, cache \in Caches : handleFileOpen(file, cache)
    \/ handleFileOpen(NoFile, NoCache)

\* The decider on every saved rule set, file and metadata of the bounded sets.
SpecDecide == InitDecide /\ [][NextDecide]_vars

(* ----------------------- the specification's terms --------------------- *)

\* An entry without its leading and trailing white space, stated by positions.
Stripped(e) ==
    LET inner == {i \in 1..Len(e) : e[i] \notin WhiteSpace} IN
    IF inner = {} THEN <<>>
    ELSE LET lo == CHOOSE i \in inner : \A j \in inner : i <= j
             hi == CHOOSE i \in inner : \A j \in inner : j <= i
         IN  [k \in 1..(hi - lo + 1) |-> e[lo + k - 1]]

\* p is a literal prefix of s.
IsPrefix(p, s) == Len(p) <= Len(s) /\ \A i \in 1..Len(p) : s[i] = p[i]

\* The three shapes of a path-rule entry.
IsFolderEntry(e) == Stripped(e) # <<>> /\ Stripped(e)[Len(Stripped(e))] = "/"
IsExtensionEntry(e) == Stripped(e) # <<>> /\ ~IsFolderEntry(e) /\ Stripped(e)[1] = "."
IsInertEntry(e) == ~IsFolderEntry(e) /\ ~IsExtensionEntry(e)

\* The entry without its first character.
AfterDot(e) == [k \in 1..(Len(Stripped(e)) - 1) |-> Stripped(e)[k + 1]]

\* What the specification says an entry matches.
EntryAccepts(e, file) ==
    \/ IsFolderEntry(e) /\ IsPrefix(Stripped(e), file.path)
    \/ IsExtensionEntry(e) /\ file.extension = AfterDot(e)

\* What the specification says a frontmatter rule matches.
RuleAccepts(rule, cache) ==
    /\ cache.present
    /\ rule.key \in DOMAIN cache.frontmatter
    /\ Stripped(String(cache.frontmatter[rule.key])) = Stripped(rule.value)

\* The decision of the specification's algorithm.
Decision(file, cache, paths, rules) ==
    \/ \E i \in 1..Len(paths) : EntryAccepts(paths[i], file)
    \/ \E j \in 1..Len(rules) : RuleAccepts(rules[j], cache)

\* The sidebar actions among a handler's calls.
SidebarCalls(calls) == SelectSeq(calls, LAMBDA c : c \in {"collapse", "expand"})

\* The last handler run was handleFileOpen on a file that is present.
Opened == last.op = "file-open" /\ last.file.exists

NoPathRuleAccepts ==
    \A i \in 1..Len(settings.collapsePaths) : ~EntryAccepts(settings.collapsePaths[i], last.file)

(* -------------------------------- claims ------------------------------- *)

\* C1: with no path rule and no frontmatter rule, opening any file that is present,
\* whatever its frontmatter, decides false: expand is called and collapse is not.
C1_EmptyRuleSetExpands ==
    (Opened /\ settings.collapsePaths = <<>> /\ collapseFrontmatterRules = <<>>)
        => /\ SidebarCalls(last.calls) = <<"expand">>
           /\ sidebar = "expanded"

C1_Witness ==
    /\ Opened /\ settings.collapsePaths = <<>> /\ collapseFrontmatterRules = <<>>
    /\ last.cache = FileCache("hideside" :> Bool(TRUE))
    /\ sidebar = "expanded"

\* C2: when a path rule matches the file the decision is true whatever the frontmatter
\* is (absent, matching a rule, matching none), and getFileCache is not called.
C2_PathRulePrecedence ==
    (Opened /\ ~NoPathRuleAccepts)
        => /\ last.calls = <<"collapse">>
           /\ sidebar = "collapsed"

C2_Witness ==
    /\ Opened /\ ~NoPathRuleAccepts
    /\ last.cache.present
    /\ collapseFrontmatterRules # <<>>
    /\ \A j \in 1..Len(collapseFrontmatterRules) : ~RuleAccepts(collapseFrontmatterRules[j], last.cache)
    /\ last.calls = <<"collapse">>

\* C3: an entry whose trimmed form ends with '/' matches a file exactly when the file's
\* path begins with the trimmed entry, also when the entry starts with '.'; so with only
\* such entries and no frontmatter rule the sidebar collapses exactly on a prefix match.
C3_FolderEntryIsPrefix ==
    /\ \A i \in 1..Len(settings.collapsePaths), file \in Files :
          IsFolderEntry(settings.collapsePaths[i])
              => (PathRuleMatches(settings.collapsePaths[i], file)
                    <=> IsPrefix(Stripped(settings.collapsePaths[i]), file.path))
    /\ ( /\ Opened /\ collapseFrontmatterRules = <<>> /\ settings.collapsePaths # <<>>
         /\ \A i \in 1..Len(settings.collapsePaths) : IsFolderEntry(settings.collapsePaths[i]) )
          => (sidebar = "collapsed"
                <=> \E i \in 1..Len(settings.collapsePaths) :
                       IsPrefix(Stripped(settings.collapsePaths[i]), last.file.path))

C3_Witness ==
    /\ Opened /\ collapseFrontmatterRules = <<>>
    /\ settings.collapsePaths = <<<<".", "a", "/">>>>
    /\ last.file.path = <<".", "a", "/", "i">>
    /\ sidebar = "collapsed"

\* C4: an entry whose trimmed form starts with '.' and does not end with '/' matches a
\* file exactly when the file's extension equals the entry without its first character;
\* the path plays no part.
C4_ExtensionEntryIsExact ==
    /\ \A i \in 1..Len(settings.collapsePaths), file \in Files :
          IsExtensionEntry(settings.collapsePaths[i])
              => (PathRuleMatches(settings.collapsePaths[i], file)
                    <=> file.extension = AfterDot(settings.collapsePaths[i]))
    /\ ( /\ Opened /\ collapseFrontmatterRules = <<>> /\ settings.collapsePaths # <<>>
         /\ \A i \in 1..Len(settings.collapsePaths) : IsExtensionEntry(settings.collapsePaths[i]) )
          => (sidebar = "collapsed"
                <=> \E i \in 1..Len(settings.collapsePaths) :
                       last.file.extension = AfterDot(settings.collapsePaths[i]))

C4_Witness ==
    /\ Opened /\ collapseFrontmatterRules = <<>>
    /\ settings.collapsePaths = <<<<".", "p">>>>
    /\ last.file.path = <<"n", "/", "a", "/", "i", ".", "p">>
    /\ sidebar = "collapsed"

C6_InertEntries ==
    Opened =>
        /\ ( /\ collapseFrontmatterRules = <<>>
             /\ \A i \in 1..Len(settings.collapsePaths) : IsInertEntry(settings.collapsePaths[i]) )
              => sidebar = "expanded"
        /\ \A e \in Entries :
              IsInertEntry(e) =>
                \A paths \in {Append(settings.collapsePaths, e), <<e>> \o settings.collapsePaths} :
                    SidebarCalls(handleFileOpenCalls(last.file, last.cache, paths, collapseFrontmatterRules))
                        = <<IF sidebar = "collapsed" THEN "collapse" ELSE "expand">>

C6_Witness ==
    /\ Opened /\ collapseFrontmatterRules = <<>>
    /\ settings.collapsePaths = <<<<"a">>>>
    /\ last.file.path = <<"a", "/", "i", ".", "p">>
    /\ sidebar = "expanded"

\* C7: a file-open event with an absent file calls neither collapse nor expand nor
\* getFileCache and leaves the sidebar and the rule set as they were.
C7_AbsentFileIsNoOp ==
    [][(last'.op = "file-open" /\ ~last'.file.exists)
          => /\ last'.calls = <<>>
             /\ sidebar' = sidebar
             /\ settings' = settings
             /\ collapseFrontmatterRules' = collapseFrontmatterRules]_vars

C7_Witness ==
    /\ last.op = "file-open" /\ ~last.file.exists
    /\ settings.collapsePaths = <<>> /\ collapseFrontmatterRules = <<>>
    /\ sidebar = "collapsed"
    /\ edits > 0

\* C8: a file-open event with a file that is present invokes exactly one sidebar action,
\* collapse when the decision under the rule set of that moment is true and expand
\* otherwise, and no other step moves the sidebar: it is collapsed exactly when the
\* decision of the most recent such event was true.
C8_OneActionPerOpen ==
    [][IF last'.op = "file-open" /\ last'.file.exists
       THEN LET d == Decision(last'.file, last'.cache, settings.collapsePaths, collapseFrontmatterRules)
            IN  /\ SidebarCalls(last'.calls) = <<IF d THEN "collapse" ELSE "expand">>
                /\ sidebar' = IF d THEN "collapsed" ELSE "expanded"
       ELSE sidebar' = sidebar]_vars

C8_Witness ==
    /\ Opened /\ edits > 0
    /\ settings.collapsePaths = <<<<".", "p">>, <<"a", "/">>>>
    /\ sidebar = "collapsed"
    /\ pending # <<>>

\* C9: loadSettings yields each field from the saved data when the data holds it and
\* from the documented defaults (no path rule, the one rule hideside = true) otherwise,
\* also after the settings tab's callbacks have run.
C9_LoadMergesOverDefaults ==
    last.op = "loadSettings"
        => /\ settings.collapsePaths =
                IF disk.exists /\ "collapsePaths" \in disk.fields
                THEN disk.collapsePaths ELSE DefaultRuleSet.collapsePaths
           /\ collapseFrontmatterRules =
                IF disk.exists /\ "collapseFrontmatterRules" \in disk.fields
                THEN disk.collapseFrontmatterRules ELSE DefaultRuleSet.collapseFrontmatterRules

\* C10: a click on a row's delete button removes exactly the rule the row shows and
\* leaves the others as they were and in order, also while an earlier click's save is
\* pending and the rows have not been rendered again.
C10_DeleteRemovesShownRule ==
    [][last'.op = "delete"
          => LET shown == rows[last'.row]
                 before == RuleArray(settings, arrays)
             IN  /\ RuleArray(settings, arrays)' = SelectSeq(before, LAMBDA id : id # shown)
                 /\ \A id \in Range(before) \ {shown} : objects'[id] = objects[id]]_vars

====
